---------------------------- MODULE Spec2Model ----------------------------
(***************************************************************************)
(* Boot-device resolution and transfer engine of src/boot.c: the two       *)
(* service entry points handle_19 (INT 19h) and handle_18 (INT 18h), the   *)
(* shared do_boot/try_boot cycle, and the collaborators try_boot calls     *)
(* (INT 13h sector read, cdrom_boot, the far call into the loaded code).   *)
(*                                                                         *)
(* Widths: u16 values are integers modulo 2^16.  TLC's integers are 32-bit *)
(* signed, so a u32 (IPL.bootorder, a BEV vector) is kept as a record of   *)
(* its two 16-bit halves [hi, lo] and the 32-bit shifts and masks of the   *)
(* code are computed on the halves.                                        *)
(***************************************************************************)
EXTENDS Integers, Sequences, FiniteSets

VARIABLES
    IPL,              \* struct ipl_s IPL: bootorder, count, table, checkfloppysig
    CONFIG_CDROM_BOOT,\* build option read at line 146
    boot_sequence,    \* EBDA boot_sequence (u16), the persistent counter
    mem_sig,          \* the word mbr->signature at bootseg 0x07c0 in memory
    cdemu,            \* EBDA cdemu.emulated_drive / cdemu.load_segment
    pc,               \* where control is
    entry,            \* the entry point whose cycle is running
    seq_nr,           \* argument of do_boot / try_boot
    bootdev,          \* try_boot local (u32, after the mask at most 15)
    type,             \* try_boot local
    bootdrv,          \* try_boot local (u8)
    bootseg,          \* try_boot local (u16)
    bootip,           \* try_boot local (u16)
    cr,               \* try_boot local struct bregs cr
    br,               \* do_boot local struct bregs br
    out,              \* text printed during the current cycle
    io,               \* collaborator calls issued during the current cycle
    attempts,         \* history: attempt indexes tried since the last handle_19
    since19,          \* history: handle_19 has run
    declined,         \* history: code loaded since the last handle_19 gave control back
    seq_at_entry      \* history: the counter when the running entry point was called

vars == << IPL, CONFIG_CDROM_BOOT, boot_sequence, mem_sig, cdemu, pc, entry,
           seq_nr, bootdev, type, bootdrv, bootseg, bootip, cr, br, out, io,
           attempts, since19, declined, seq_at_entry >>

-----------------------------------------------------------------------------
(* Bounds of the model *)

\* recovery invocations are followed up to this value of the counter
MaxSeq == 9

-----------------------------------------------------------------------------
(* Program constants *)

CONFIG_BOOT == TRUE

IPL_TYPE_FLOPPY == 1
IPL_TYPE_HARDDISK == 2
IPL_TYPE_CDROM == 3
IPL_TYPE_BEV == \h80
MBR_SIGNATURE == \hAA55
F_CF == 1

U16 == \h10000

drivetypes == << "", "Floppy", "Hard Disk", "CD-Rom", "Network" >>

-----------------------------------------------------------------------------
(* 32-bit values as two 16-bit halves *)

U32(h, l) == [hi |-> h, lo |-> l]

Pow2(n) == 2 ^ n

\* v >> s on a u32, for 0 <= s < 32
Shr32(v, s) ==
    IF s < 16
    THEN [hi |-> v.hi \div Pow2(s),
          lo |-> (v.lo \div Pow2(s)) + (v.hi % Pow2(s)) * Pow2(16 - s)]
    ELSE [hi |-> 0, lo |-> v.hi \div Pow2(s - 16)]

\* v & m on a u32, for a mask m = 2^k - 1 with k <= 16
AndLow32(v, m) == [hi |-> 0, lo |-> v.lo % (m + 1)]

\* struct bregs, all zero (memset(&cr, 0, sizeof(cr)))
ZeroRegs ==
    [ax |-> 0, bx |-> 0, cx |-> 0, dx |-> 0, si |-> 0, di |-> 0, bp |-> 0,
     ds |-> 0, es |-> 0, ip |-> 0, cs |-> 0, flags |-> 0]

SetLow(reg, v) == (reg \div 256) * 256 + v
SetHigh(reg, v) == v * 256 + (reg % 256)


-----------------------------------------------------------------------------
(* Inputs: the IPL the device-enumeration collaborators left, the build    *)
(* option, and what the external collaborators answer                      *)

Entry(t, v) == [type |-> t, vector |-> v]

\* the spec's scenario table, one with every kind of entry (the four known
\* types, an empty entry (type 0), an entry of type 4 and a second BEV), and
\* one that starts with an entry of an unknown type above 4
Tables ==
    { << Entry(IPL_TYPE_HARDDISK, U32(0, 0)), Entry(IPL_TYPE_FLOPPY, U32(0, 0)) >>,
      << Entry(IPL_TYPE_FLOPPY, U32(0, 0)),
         Entry(IPL_TYPE_HARDDISK, U32(0, 0)),
         Entry(IPL_TYPE_CDROM, U32(0, 0)),
         Entry(IPL_TYPE_BEV, U32(\h1234, \h0056)),
         Entry(0, U32(0, 0)),
         Entry(4, U32(0, 0)),
         Entry(IPL_TYPE_BEV, U32(\hC800, \h0003)) >>,
      << Entry(5, U32(0, 0)), Entry(IPL_TYPE_FLOPPY, U32(0, 0)) >> }

BootOrders ==
    { U32(\h0000, \h0000), U32(\h0000, \h0021), U32(\h0000, \h0201),
      U32(\h8765, \h4321), U32(\h1111, \h1111), U32(\h0000, \hF543),
      U32(\h0000, \h0076) }

IPLs ==
    { [bootorder |-> o, count |-> n, table |-> t, checkfloppysig |-> f] :
        o \in BootOrders, n \in {0, 1, 2, 7}, t \in Tables, f \in BOOLEAN }

\* values the counter may hold when an entry point is first called here: 0,
\* and 0xFFFE and 0xFFFF, the values 65534 and 65535 recovery invocations
\* (by loaded code that keeps declining the boot) leave in the EBDA
InitSeqs == {0, \hFFFE, \hFFFF}

\* INT 13h function 2: the flags and AH it returns, and the signature word
\* of the sector it stored (kept when the read failed)
Int13Results ==
    { [flags |-> \h0200, ah |-> 0, stored |-> TRUE, sig |-> \hAA55],
      [flags |-> \h0200, ah |-> 0, stored |-> TRUE, sig |-> \h55AA],
      [flags |-> \h0201, ah |-> \h80, stored |-> FALSE, sig |-> 0] }

\* cdrom_boot(): its status and, on success, what it publishes in the EBDA
\* load segments cdrom_boot may publish: every single bit, every high nibble
\* with the low 12 bits clear and with them all set, and mixed values
LoadSegments ==
    { Pow2(k) : k \in 0..15 }
    \cup { h * \h1000 + l : h \in 0..15, l \in {\h000, \hFFF} }
    \cup { \h07C0, \h1234, \h8001, \hFFF0 }

EmulatedDrives == << \h00, \h80, \hE0 >>

CdromResults ==
    { [status |-> 3, emulated_drive |-> 0, load_segment |-> 0] }
    \cup { [status |-> 0, emulated_drive |-> EmulatedDrives[(s % 3) + 1],
            load_segment |-> s] : s \in LoadSegments }

-----------------------------------------------------------------------------
(* The state before an entry point is first called *)

Init ==
    /\ IPL \in { i \in IPLs : i.count <= Len(i.table) }
    /\ CONFIG_CDROM_BOOT \in BOOLEAN
    /\ boot_sequence \in InitSeqs
    /\ mem_sig = 0
    /\ cdemu = [emulated_drive |-> 0, load_segment |-> 0]
    /\ pc = "ext"
    /\ entry = "none"
    /\ seq_nr = 0
    /\ bootdev = 0
    /\ type = 0
    /\ bootdrv = 0
    /\ bootseg = 0
    /\ bootip = 0
    /\ cr = ZeroRegs
    /\ br = ZeroRegs
    /\ out = << >>
    /\ io = << >>
    /\ attempts = << >>
    /\ since19 = FALSE
    /\ declined = FALSE
    /\ seq_at_entry = 0

-----------------------------------------------------------------------------
(* Helpers of the actions *)

\* BX_PANIC(msg): prints msg and halts the machine
BX_PANIC(msg) ==
    /\ pc' = "halted"
    /\ out' = Append(out, << "PANIC", msg >>)

\* bootdev >>= 4 * seq_nr (line 86).  A shift count of 32 or more is
\* undefined on a u32: the x86 shift instruction uses the count modulo 32,
\* a build that folds the shift differently yields 0.
ShrOutcomes(v, n) ==
    IF n < 32 THEN { Shr32(v, n) } ELSE { Shr32(v, n % 32), U32(0, 0) }

\* mutants of BootdevFields: a mask of 0x7, and a shift that starts one
\* field too high
BootdevFieldsMask7(order, seq) ==
    { AndLow32(sh, \h7).lo : sh \in ShrOutcomes(order, 4 * seq) }

BootdevFieldsOffByOne(order, seq) ==
    { AndLow32(sh, \hF).lo : sh \in ShrOutcomes(order, 4 * (seq + 1)) }

\* the values bootdev can hold after lines 85-87
BootdevFields(order, seq) ==
    { AndLow32(sh, \hF).lo : sh \in ShrOutcomes(order, 4 * seq) }

\* mutant of OutOfRange: the index equal to count is let through
OutOfRangeOffByOne(dev, count) == dev > count

\* bootdev >= IPL.count (line 95)
OutOfRange(dev, count) == dev >= count

\* mutant of BadDriveType: an empty entry (type 0) is not refused
BadDriveTypeAbove(t) == t > 4

\* type == 0 || type > 0x4 (line 34), on the type printf_bootdev prints
BadDriveType(t) == t = 0 \/ t > 4

\* mutant of CdromBootEnabled: the build option is not consulted
CdromBootAlways == TRUE

\* CONFIG_CDROM_BOOT (line 146)
CdromBootEnabled == CONFIG_CDROM_BOOT

\* mutant of try_boot_keeps: the boot order is consumed in place
try_boot_shifts_order ==
    /\ IPL' = [IPL EXCEPT !.bootorder = Shr32(@, 4)]
    /\ UNCHANGED boot_sequence

\* try_boot works on a copy of IPL.bootorder (line 85) and only reads the
\* IPL and the EBDA counter
try_boot_keeps == UNCHANGED << IPL, boot_sequence >>

\* printf_bootdev: "NIC appears as type 0x80"
PrintType(t) == IF t = IPL_TYPE_BEV THEN 4 ELSE t

\* mutant of BevSeg: the BEV segment is canonicalized like a load segment
BevSegCanon(vector) == Shr32(vector, 16).lo - (Shr32(vector, 16).lo % \h1000)

\* bootseg = vector >> 16; bootip = vector & 0xffff (lines 167-168)
BevSeg(vector) == Shr32(vector, 16).lo
BevIp(vector) == AndLow32(vector, \hFFFF).lo

\* mutant of CanonSeg: the low 12 bits are not cleared
CanonSegKeep(seg) == seg

\* Canonicalize bootseg:bootip (lines 141-142, 159-160), in u16 arithmetic
CanonIp(seg) == ((seg % \h1000) * 16) % U16
CanonSeg(seg) == seg - (seg % \h1000)

\* mutant of CarrySet: any flag counts as an error
CarrySetAnyFlag(flags) == flags # 0

\* cr.flags & F_CF
CarrySet(flags) == (flags \div F_CF) % 2 = 1

\* mutant of SigRequired: the floppy policy flag is ignored
SigRequiredHddOnly(t, checkfloppysig) == t # IPL_TYPE_FLOPPY

\* "Always check the signature on a HDD boot sector; on FDD, only do the
\* check if configured for it" (line 132)
SigRequired(t, checkfloppysig) == t # IPL_TYPE_FLOPPY \/ checkfloppysig

\* mutant of ReadRequest: the sector number is left at 0
ReadRequestNoSector(drv, seg) ==
    LET c1 == [ZeroRegs EXCEPT !.dx = SetLow(@, drv)]
        c2 == [c1 EXCEPT !.es = seg]
        c3 == [c2 EXCEPT !.ax = SetHigh(@, 2)]
    IN  [c3 EXCEPT !.ax = SetLow(@, 1)]

\* the register frames try_boot builds
ReadRequest(drv, seg) ==
    LET c1 == [ZeroRegs EXCEPT !.dx = SetLow(@, drv)]
        c2 == [c1 EXCEPT !.es = seg]
        c3 == [c2 EXCEPT !.ax = SetHigh(@, 2)]
        c4 == [c3 EXCEPT !.ax = SetLow(@, 1)]
    IN  [c4 EXCEPT !.cx = SetLow(@, 1)]

\* mutant of BootFrame: the second memset is missing
BootFrameNoMemset(seg, ip, drv) ==
    LET c1 == [cr EXCEPT !.ip = ip, !.cs = seg]
        c2 == [c1 EXCEPT !.dx = SetLow(@, drv)]
    IN  [c2 EXCEPT !.ax = \hAA55]

BootFrame(seg, ip, drv) ==
    LET c1 == [ZeroRegs EXCEPT !.ip = ip, !.cs = seg]
        c2 == [c1 EXCEPT !.dx = SetLow(@, drv)]
    IN  [c2 EXCEPT !.ax = \hAA55]

\* mutants of NextSeq: a step of two, no step, a step down
NextSeqSkip(v) == (v + 2) % U16
NextSeqStuck(v) == v
NextSeqDown(v) == (v + U16 - 1) % U16

\* mutant of ResetSeq: the counter is left as it was
ResetSeqKeep == boot_sequence

\* SET_EBDA(boot_sequence, 0) (line 216)
ResetSeq == 0

\* u16 seq = GET_EBDA2(ebda_seg, boot_sequence) + 1 (line 205)
NextSeq(v) == (v + 1) % U16

\* do_boot(seq): control enters try_boot(seq) with fresh locals
EnterCycle(seq) ==
    /\ seq_nr' = seq
    /\ pc' = "try_boot"
    /\ bootdev' = 0
    /\ type' = 0
    /\ bootdrv' = 0
    /\ bootseg' = 0
    /\ bootip' = 0
    /\ out' = << >>
    /\ io' = << >>

\* print_boot_failure(type, reason) followed by return
print_boot_failure(t, reason, sofar) ==
    IF t = 0 \/ t > 3
    THEN /\ pc' = "halted"
         /\ out' = Append(sofar, << "PANIC", "Bad drive type" >>)
    ELSE /\ pc' = "returned"
         /\ out' = Append(sofar,
                << "Boot failed",
                   IF reason = 0 THEN ": not a bootable disk"
                                 ELSE ": could not read the boot disk" >>)

-----------------------------------------------------------------------------
(* The entry points *)

\* INT 19h Boot Load Service Entry Point
handle_19 ==
    /\ pc \in {"ext", "booted"}
    /\ entry' = "handle_19"
    /\ boot_sequence' = ResetSeq
    /\ EnterCycle(0)
    /\ attempts' = << 0 >>
    /\ since19' = TRUE
    /\ declined' = FALSE
    /\ seq_at_entry' = boot_sequence
    /\ UNCHANGED << IPL, CONFIG_CDROM_BOOT, mem_sig, cdemu, cr, br >>

\* Boot Failure recovery: try the next device
handle_18 ==
    /\ pc \in {"ext", "booted", "int18"}
    /\ boot_sequence # MaxSeq
    /\ entry' = "handle_18"
    /\ LET seq == NextSeq(boot_sequence)
       IN  /\ boot_sequence' = seq
           /\ EnterCycle(seq)
           /\ attempts' = Append(attempts, seq)
    /\ declined' = (declined \/ pc = "booted")
    /\ seq_at_entry' = boot_sequence
    /\ UNCHANGED << IPL, CONFIG_CDROM_BOOT, mem_sig, cdemu, cr, br, since19 >>

\* do_boot after try_boot returned: invoke the boot recovery function
do_boot_recover ==
    /\ pc = "returned"
    /\ br' = ZeroRegs
    /\ pc' = "int18"
    /\ UNCHANGED << IPL, CONFIG_CDROM_BOOT, boot_sequence, mem_sig, cdemu,
                    entry, seq_nr, bootdev, type, bootdrv, bootseg, bootip,
                    cr, out, io, attempts, since19, declined,
                    seq_at_entry >>

-----------------------------------------------------------------------------
(* try_boot, step by step *)

\* lines 82-98: decode the boot order field of this attempt
try_boot_resolve ==
    /\ pc = "try_boot"
    /\ IF ~CONFIG_BOOT
       THEN /\ BX_PANIC("Boot support not compiled in.")
            /\ UNCHANGED bootdev
       ELSE \E field \in BootdevFields(IPL.bootorder, seq_nr) :
              IF field = 0
              THEN /\ BX_PANIC("No bootable device.")
                   /\ bootdev' = field
              ELSE /\ bootdev' = field - 1
                   /\ IF OutOfRange(bootdev', IPL.count)
                      THEN /\ out' = Append(out, << "dprintf", "Invalid boot device" >>)
                           /\ pc' = "returned"
                      ELSE /\ out' = out
                           /\ pc' = "resolved"
    /\ try_boot_keeps
    /\ UNCHANGED << CONFIG_CDROM_BOOT, mem_sig, cdemu,
                    entry, seq_nr, type, bootdrv, bootseg, bootip, cr, br, io,
                    attempts, since19, declined,
                    seq_at_entry >>

\* lines 102-107: print_boot_device(bootdev), then read the entry's type
print_boot_device ==
    /\ pc = "resolved"
    /\ LET t == PrintType(IPL.table[bootdev + 1].type)
           o == Append(out, << "Booting from " >>)
       IN  IF BadDriveType(t)
           THEN /\ pc' = "halted"
                /\ out' = Append(o, << "PANIC", "Bad drive type" >>)
                /\ UNCHANGED << type, bootdrv >>
           ELSE /\ out' = Append(o, << drivetypes[t + 1], "..." >>)
                /\ type' = IPL.table[bootdev + 1].type
                /\ bootdrv' = 0
                /\ pc' = "dispatch"
    /\ try_boot_keeps
    /\ UNCHANGED << CONFIG_CDROM_BOOT, mem_sig, cdemu,
                    entry, seq_nr, bootdev, bootseg, bootip, cr, br, io,
                    attempts, since19, declined,
                    seq_at_entry >>

\* lines 110-143: floppy or hard disk
try_boot_disk ==
    /\ pc = "dispatch"
    /\ type \in {IPL_TYPE_FLOPPY, IPL_TYPE_HARDDISK}
    /\ LET drv == IF type = IPL_TYPE_HARDDISK THEN \h80 ELSE \h00
           seg == \h07C0
           req == ReadRequest(drv, seg)
       IN  \E r \in Int13Results :
             /\ bootdrv' = drv
             /\ io' = Append(io, [op |-> "int13", regs |-> req, ret |-> r.flags])
             /\ cr' = [req EXCEPT !.flags = r.flags, !.ax = SetHigh(@, r.ah)]
             /\ mem_sig' = IF r.stored THEN r.sig ELSE mem_sig
             /\ IF CarrySet(cr'.flags)
                THEN /\ print_boot_failure(type, 1, out)
                     /\ bootseg' = seg
                     /\ UNCHANGED bootip
                ELSE IF /\ SigRequired(type, IPL.checkfloppysig)
                        /\ mem_sig' # MBR_SIGNATURE
                     THEN /\ print_boot_failure(type, 0, out)
                          /\ bootseg' = seg
                          /\ UNCHANGED bootip
                     ELSE /\ bootip' = CanonIp(seg)
                          /\ bootseg' = CanonSeg(seg)
                          /\ pc' = "transfer"
                          /\ out' = out
    /\ try_boot_keeps
    /\ UNCHANGED << CONFIG_CDROM_BOOT, cdemu, entry,
                    seq_nr, bootdev, type, br, attempts, since19, declined,
                    seq_at_entry >>

\* lines 144-162: CD-ROM
try_boot_cdrom ==
    /\ pc = "dispatch"
    /\ type = IPL_TYPE_CDROM
    /\ IF ~CdromBootEnabled
       THEN /\ pc' = "returned"
            /\ UNCHANGED << cdemu, bootdrv, bootseg, bootip, out, io >>
       ELSE \E r \in CdromResults :
              /\ io' = Append(io, [op |-> "cdrom_boot", regs |-> ZeroRegs, ret |-> r.status])
              /\ IF r.status # 0
                 THEN /\ print_boot_failure(type, 1,
                            Append(out, << "CDROM boot failure code" >>))
                      /\ UNCHANGED << cdemu, bootdrv, bootseg, bootip >>
                 ELSE /\ cdemu' = [emulated_drive |-> r.emulated_drive,
                                   load_segment |-> r.load_segment]
                      /\ bootdrv' = cdemu'.emulated_drive
                      /\ bootip' = CanonIp(cdemu'.load_segment)
                      /\ bootseg' = CanonSeg(cdemu'.load_segment)
                      /\ pc' = "transfer"
                      /\ out' = out
    /\ try_boot_keeps
    /\ UNCHANGED << CONFIG_CDROM_BOOT, mem_sig, entry,
                    seq_nr, bootdev, type, cr, br, attempts, since19, declined,
                    seq_at_entry >>

\* lines 163-170: expansion ROM with a Bootstrap Entry Vector
try_boot_bev ==
    /\ pc = "dispatch"
    /\ type = IPL_TYPE_BEV
    /\ LET vector == IPL.table[bootdev + 1].vector
       IN  /\ bootseg' = BevSeg(vector)
           /\ bootip' = BevIp(vector)
    /\ pc' = "transfer"
    /\ try_boot_keeps
    /\ UNCHANGED << CONFIG_CDROM_BOOT, mem_sig, cdemu,
                    entry, seq_nr, bootdev, type, bootdrv, cr, br, out, io,
                    attempts, since19, declined,
                    seq_at_entry >>

\* lines 171-172: default: return
try_boot_default ==
    /\ pc = "dispatch"
    /\ type \notin {IPL_TYPE_FLOPPY, IPL_TYPE_HARDDISK, IPL_TYPE_CDROM,
                    IPL_TYPE_BEV}
    /\ pc' = "returned"
    /\ try_boot_keeps
    /\ UNCHANGED << CONFIG_CDROM_BOOT, mem_sig, cdemu,
                    entry, seq_nr, bootdev, type, bootdrv, bootseg, bootip,
                    cr, br, out, io, attempts, since19, declined,
                    seq_at_entry >>

\* lines 175-184: build the frame and far-call the loaded code
try_boot_call16 ==
    /\ pc = "transfer"
    /\ out' = Append(out, << "dprintf", "Booting from %x:%x" >>)
    /\ cr' = BootFrame(bootseg, bootip, bootdrv)
    /\ io' = Append(io, [op |-> "call16", regs |-> cr', ret |-> 0])
    /\ pc' = "booted"
    /\ try_boot_keeps
    /\ UNCHANGED << CONFIG_CDROM_BOOT, mem_sig, cdemu,
                    entry, seq_nr, bootdev, type, bootdrv, bootseg, bootip,
                    br, attempts, since19, declined, seq_at_entry >>

\* the loaded code returns from the far call: try_boot returns to do_boot.
\* Loaded code may also call INT 18h or INT 19h itself (pc = "booted" in
\* handle_18 and handle_19); it is taken to leave the IPL and the EBDA alone.
boot_code_returns ==
    /\ pc = "booted"
    /\ pc' = "returned"
    /\ declined' = TRUE
    /\ UNCHANGED << IPL, CONFIG_CDROM_BOOT, boot_sequence, mem_sig, cdemu,
                    entry, seq_nr, bootdev, type, bootdrv, bootseg, bootip,
                    cr, br, out, io, attempts, since19, seq_at_entry >>

-----------------------------------------------------------------------------

Next ==
    \/ handle_19
    \/ handle_18
    \/ do_boot_recover
    \/ try_boot_resolve
    \/ print_boot_device
    \/ try_boot_disk
    \/ try_boot_cdrom
    \/ try_boot_bev
    \/ try_boot_default
    \/ try_boot_call16
    \/ boot_code_returns

Spec == Init /\ [][Next]_vars

-----------------------------------------------------------------------------
(* Vocabulary of the properties *)

LastOf(q) == q[Len(q)]

\* reference decoder: the order as eight 4-bit fields, lowest nibble first
Nib16(w) == << w % 16, (w \div 16) % 16, (w \div 256) % 16, (w \div 4096) % 16 >>
RefFields(order) == Nib16(order.lo) \o Nib16(order.hi)

\* the resolve step of the running cycle has been executed
Resolved == entry # "none" /\ pc # "try_boot"

NoBootableDevice ==
    /\ pc = "halted"
    /\ out # << >>
    /\ LastOf(out) = << "PANIC", "No bootable device." >>

Handle19Step == pc \in {"ext", "booted"} /\ pc' = "try_boot" /\ entry' = "handle_19"
Handle18Step == pc \in {"ext", "booted", "int18"} /\ pc' = "try_boot" /\ entry' = "handle_18"

AttemptsInOrder == attempts = [i \in 1..Len(attempts) |-> i - 1]

-----------------------------------------------------------------------------
(* C1: strict priority order *)

\* C1 as stated: when control is transferred at attempt k after an initial
\* entry, the attempts tried since that entry are 0, 1, ..., k, each once and
\* in increasing order, and none of the attempts before k transferred control.
C1_Original ==
    (since19 /\ pc = "booted") =>
        /\ Len(attempts) = seq_nr + 1
        /\ AttemptsInOrder
        /\ ~declined

\* C1 as amended: when control is transferred at attempt k after an initial
\* entry, the attempts tried since that entry are exactly 0, 1, ..., k, each
\* once and in increasing order (an earlier attempt may itself have
\* transferred control to code that gave it back).
C1_PriorityOrder ==
    (since19 /\ pc = "booted") =>
        /\ Len(attempts) = seq_nr + 1
        /\ AttemptsInOrder
        /\ LastOf(attempts) = seq_nr

\* the spec's scenario: hard disk fails at attempt 0, the floppy is booted at
\* attempt 1
C1_Witness ==
    /\ since19 /\ pc = "booted" /\ ~declined
    /\ IPL.bootorder = U32(0, \h21)
    /\ attempts = << 0, 1 >>
    /\ bootdev = 1 /\ type = IPL_TYPE_FLOPPY

-----------------------------------------------------------------------------
(* C2: handle_18 stores the counter plus one *)

-----------------------------------------------------------------------------
(* C3: handle_19 resets the counter and attempts index 0 *)

\* C3: during a cycle started by handle_19 the counter is 0 and the attempt
\* index is 0, whatever the counter held at the invocation; a device the
\* cycle resolves is the one named by field 0 of the boot order.
C3_Handle19Resets ==
    entry = "handle_19" =>
        /\ boot_sequence = 0
        /\ seq_nr = 0
        /\ attempts = << 0 >>
        /\ pc \in {"resolved", "dispatch", "transfer", "booted"} =>
               bootdev + 1 = RefFields(IPL.bootorder)[1]

\* handle_19 called by loaded code after three recoveries
C3_Witness ==
    entry = "handle_19" /\ seq_at_entry = 3 /\ pc = "booted"

-----------------------------------------------------------------------------
(* C4: the counter never decreases between two initial entries *)

NoRepeat ==
    \A i, j \in 1..Len(attempts) : i # j => attempts[i] # attempts[j]

-----------------------------------------------------------------------------
(* C5: the resolve step decodes the 4-bit field of the attempt *)

\* C5: for an attempt index a in 0..7, once the resolve step has run the
\* outcome is the fatal "No bootable device" iff field a of the reference
\* decoding of the order is 0, and otherwise bootdev is that field minus 1.
C5_ResolveField ==
    (Resolved /\ seq_nr <= 7) =>
        LET f == RefFields(IPL.bootorder)[seq_nr + 1]
        IN  /\ NoBootableDevice <=> f = 0
            /\ f # 0 => bootdev = f - 1

\* field 7 of 0x87654321 is 8: table index 7
C5_Witness ==
    /\ Resolved /\ seq_nr = 7 /\ bootdev = 7
    /\ IPL.bootorder = U32(\h8765, \h4321)

-----------------------------------------------------------------------------
(* C6: a zero field is fatal *)

\* C6: for an attempt index in 0..7 whose field of the order is 0, once the
\* resolve step has run the machine is halted with "No bootable device" as
\* the only output of the cycle and no collaborator call; and a halted
\* machine takes no further step (no recovery, no change of the counter).
C6_ZeroFieldFatal ==
    /\ []((Resolved /\ seq_nr <= 7 /\ RefFields(IPL.bootorder)[seq_nr + 1] = 0) =>
            /\ pc = "halted"
            /\ out = << << "PANIC", "No bootable device." >> >>
            /\ io = << >>
            /\ boot_sequence = seq_nr)
    /\ [][pc # "halted"]_vars

\* order 0x00000201: halted at attempt 1, field 2 is never attempted
C6_Witness ==
    /\ pc = "halted" /\ seq_nr = 1 /\ attempts = << 0, 1 >>
    /\ IPL.bootorder = U32(0, \h0201)
    /\ NoBootableDevice

-----------------------------------------------------------------------------
(* C7: signature policy *)

DiskRead(k) == Len(io) >= k /\ io[k].op = "int13"
ReadOk(k) == DiskRead(k) /\ (io[k].ret % 2 = 0)
Transferring == pc \in {"transfer", "booted"}
NotBootableReported ==
    \E k \in 1..Len(out) : out[k] = << "Boot failed", ": not a bootable disk" >>

\* C7: a hard disk is transferred to only after a successful read of a sector
\* whose signature is 0xAA55; a floppy only after a successful read, and with
\* the signature 0xAA55 when checkfloppysig is set; with the flag clear a
\* successful floppy read always leads to the transfer; for CD-ROM and BEV
\* entries "not a bootable disk" is never reported, a successful cdrom_boot
\* always leads to the transfer and a BEV entry always does.
C7_SignaturePolicy ==
    /\ (Transferring /\ type = IPL_TYPE_HARDDISK) =>
           ReadOk(1) /\ mem_sig = 43605
    /\ (Transferring /\ type = IPL_TYPE_FLOPPY) =>
           ReadOk(1) /\ (IPL.checkfloppysig => mem_sig = 43605)
    /\ (type = IPL_TYPE_FLOPPY /\ ReadOk(1) /\ ~IPL.checkfloppysig /\ Len(io) = 1) =>
           pc = "transfer"
    /\ type \in {IPL_TYPE_CDROM, IPL_TYPE_BEV} => ~NotBootableReported
    /\ (type = IPL_TYPE_CDROM /\ Len(io) = 1 /\ io[1].op = "cdrom_boot"
          /\ io[1].ret = 0) => pc = "transfer"
    /\ (type = IPL_TYPE_BEV /\ pc \notin {"dispatch", "transfer"}) =>
           io # << >> /\ io[1].op = "call16"

\* a floppy whose sector has no boot signature is booted, the flag being clear
C7_Witness ==
    /\ pc = "booted" /\ type = IPL_TYPE_FLOPPY
    /\ ~IPL.checkfloppysig /\ mem_sig = 21930

-----------------------------------------------------------------------------
(* C8: a failed load never transfers and reports its reason *)

ReportedLast(reason) == out # << >> /\ LastOf(out) = << "Boot failed", reason >>

\* C8: after the load step of a disk attempt, a read that returned carry left
\* the cycle returned with "could not read the boot disk" as its last output,
\* whatever the signature word in memory; a successful read with a required
\* signature other than 0xAA55 left it returned with "not a bootable disk";
\* a non-zero cdrom_boot status left it returned with "could not read the
\* boot disk"; none of them called the loaded code or halted.
C8_FailedLoad ==
    /\ (DiskRead(1) /\ ~ReadOk(1)) =>
           /\ pc \in {"returned", "int18"}
           /\ ReportedLast(": could not read the boot disk")
           /\ Len(io) = 1
    /\ (ReadOk(1) /\ mem_sig # 43605
          /\ (type = IPL_TYPE_HARDDISK \/ IPL.checkfloppysig)) =>
           /\ pc \in {"returned", "int18"}
           /\ ReportedLast(": not a bootable disk")
           /\ Len(io) = 1
    /\ (io # << >> /\ io[1].op = "cdrom_boot" /\ io[1].ret # 0) =>
           /\ pc \in {"returned", "int18"}
           /\ ReportedLast(": could not read the boot disk")
           /\ Len(io) = 1

\* a failed hard-disk read while the signature word in memory is not 0xAA55
C8_Witness ==
    /\ pc = "returned" /\ type = IPL_TYPE_HARDDISK
    /\ DiskRead(1) /\ ~ReadOk(1) /\ mem_sig # 43605
    /\ ReportedLast(": could not read the boot disk")

-----------------------------------------------------------------------------
(* C9: the register frame of the far call *)

ExpectedDrive ==
    CASE type = IPL_TYPE_FLOPPY -> 0
      [] type = IPL_TYPE_HARDDISK -> 128
      [] type = IPL_TYPE_CDROM -> cdemu.emulated_drive
      [] OTHER -> 0

\* C9: at the far call the frame has AX = 0xAA55, CS:IP = bootseg:bootip (for
\* disks 0x0000:0x7C00, for a BEV entry the two halves of its vector), DL =
\* the drive of the attempted device with DH = 0, and every other register 0.
C9_TransferFrame ==
    pc = "booted" =>
        LET f == LastOf(io).regs
        IN  /\ LastOf(io).op = "call16"
            /\ f.ax = 43605
            /\ f.cs = bootseg /\ f.ip = bootip
            /\ f.dx = ExpectedDrive
            /\ [f EXCEPT !.ax = 0, !.cs = 0, !.ip = 0, !.dx = 0] = ZeroRegs
            /\ type \in {IPL_TYPE_FLOPPY, IPL_TYPE_HARDDISK} =>
                   f.cs = 0 /\ f.ip = 31744
            /\ type = IPL_TYPE_BEV =>
                   /\ f.cs = IPL.table[bootdev + 1].vector.hi
                   /\ f.ip = IPL.table[bootdev + 1].vector.lo

\* a hard disk booted at the second attempt, after a sector read at the first
C9_Witness ==
    /\ pc = "booted" /\ type = IPL_TYPE_HARDDISK /\ seq_nr = 1
    /\ LastOf(io).regs.dx = 128 /\ DiskRead(1)

-----------------------------------------------------------------------------
(* C10: canonicalization law *)

RawSegment == IF type = IPL_TYPE_CDROM THEN cdemu.load_segment ELSE 1984

\* C10: when a disk or CD-ROM attempt reaches the transfer, with S the raw
\* load segment, bootseg * 16 + bootip = S * 16 modulo 2^20, bootip is
\* (S mod 2^12) * 16 without truncation, the low 12 bits of bootseg are clear
\* and both fit 16 bits; for disks the entry point is 0x0000:0x7C00.
C10_Canonical ==
    (Transferring /\ type \in {IPL_TYPE_FLOPPY, IPL_TYPE_HARDDISK, IPL_TYPE_CDROM}) =>
        /\ bootseg * 16 + bootip = (RawSegment * 16) % 1048576
        /\ bootip = (RawSegment % 4096) * 16
        /\ bootseg % 4096 = 0
        /\ bootseg \in 0..65535 /\ bootip \in 0..65535
        /\ type # IPL_TYPE_CDROM => bootseg = 0 /\ bootip = 31744

\* the optical collaborator published load segment 0xFFFF
C10_Witness ==
    /\ pc = "transfer" /\ type = IPL_TYPE_CDROM
    /\ cdemu.load_segment = 65535
    /\ bootseg = 61440 /\ bootip = 65520

-----------------------------------------------------------------------------
(* C11: a BEV entry is transferred to at its vector, without any load *)

BevVector == IPL.table[bootdev + 1].vector
NoLoadIssued == \A k \in 1..Len(io) : io[k].op = "call16"

\* C11: once the dispatch of a BEV entry with vector V has run, the attempt
\* is at or past the far call, with bootseg = V >> 16 and bootip = V & 0xFFFF
\* (for V = 0x12340056: 0x1234:0x0056), drive 0, and no sector read or
\* cdrom_boot call issued; the frame of the far call carries these values.
C11_BevTransfer ==
    (type = IPL_TYPE_BEV /\ pc # "dispatch") =>
        /\ bootseg = BevVector.hi /\ bootip = BevVector.lo
        /\ bootdrv = 0
        /\ NoLoadIssued
        /\ pc = "transfer" \/ (io # << >> /\ io[1].op = "call16")
        /\ pc # "halted"
        /\ io # << >> =>
               /\ io[1].regs.cs = BevVector.hi
               /\ io[1].regs.ip = BevVector.lo
               /\ io[1].regs.dx = 0
        /\ BevVector = U32(4660, 86) => bootseg = 4660 /\ bootip = 86

\* the entry with vector 0x12340056 is booted
C11_Witness ==
    /\ pc = "booted" /\ type = IPL_TYPE_BEV
    /\ BevVector = U32(4660, 86)
    /\ bootseg = 4660 /\ bootip = 86 /\ cr.cs = 4660 /\ cr.ip = 86

-----------------------------------------------------------------------------
(* C12: a table index at or beyond count *)

\* the field of this attempt (index 0..7) is non-zero and names a table
\* index that is not below count
IndexOutOfRange ==
    /\ Resolved /\ seq_nr <= 7
    /\ RefFields(IPL.bootorder)[seq_nr + 1] # 0
    /\ RefFields(IPL.bootorder)[seq_nr + 1] - 1 >= IPL.count

\* C12: when the non-zero field of the attempt decodes to an index >= count,
\* the cycle has returned with the diagnostic "Invalid boot device" as its
\* only output, no table entry read, no collaborator call, no transfer and
\* no halt; the next steps are do_boot's INT 18h and then handle_18 with the
\* next attempt index.
C12_OutOfRange ==
    /\ [](IndexOutOfRange =>
            /\ pc \in {"returned", "int18"}
            /\ out = << << "dprintf", "Invalid boot device" >> >>
            /\ io = << >>
            /\ type = 0 /\ bootseg = 0 /\ bootip = 0)
    /\ [][(IndexOutOfRange /\ pc = "returned") => pc' = "int18"]_vars
    /\ [][(IndexOutOfRange /\ pc = "int18") =>
            /\ Handle18Step
            /\ seq_nr' = seq_nr + 1
            /\ boot_sequence' = seq_nr + 1]_vars

\* field 3 of 0x0000F543 is 0xF: index 14, and recovery has been invoked
C12_Witness ==
    /\ pc = "int18" /\ seq_nr = 3 /\ bootdev = 14
    /\ IPL.bootorder = U32(0, 62787)
    /\ out = << << "dprintf", "Invalid boot device" >> >>

-----------------------------------------------------------------------------
(* C13: an entry of type None or of an unrecognized type *)

EntryType == IPL.table[bootdev + 1].type
Announced == out # << >> /\ out[1] = << "Booting from " >>
BootFailedReported ==
    \E k \in 1..Len(out) : out[k][1] = "Boot failed"

\* the attempt resolved to an in-range entry (its announcement has begun)
\* whose type is none of Floppy, HardDisk, Optical, ExpansionBEV
UnknownTypeAttempt ==
    /\ Announced
    /\ EntryType \notin {IPL_TYPE_FLOPPY, IPL_TYPE_HARDDISK, IPL_TYPE_CDROM,
                         IPL_TYPE_BEV}

\* C13 as stated: such an attempt performs no collaborator call and no
\* transfer, reports no boot failure and does not halt.
C13_Original ==
    UnknownTypeAttempt =>
        /\ io = << >>
        /\ ~BootFailedReported
        /\ pc # "halted"

\* C13 as amended: such an attempt performs no collaborator call and no
\* transfer and reports no boot failure; for type 0 (None) and every
\* unrecognized type other than 4 it halts with "Bad drive type" right after
\* "Booting from "; for type 4 it announces "Network", does not halt and
\* returns, and the next steps are do_boot's INT 18h and handle_18.
C13_UnknownType ==
    /\ [](UnknownTypeAttempt =>
            /\ io = << >>
            /\ ~BootFailedReported
            /\ IF EntryType = 4
               THEN /\ pc \in {"dispatch", "returned", "int18"}
                    /\ out = << << "Booting from " >>, << "Network", "..." >> >>
               ELSE /\ pc = "halted"
                    /\ out = << << "Booting from " >>,
                                << "PANIC", "Bad drive type" >> >>)
    /\ [][(UnknownTypeAttempt /\ pc = "dispatch") => pc' = "returned"]_vars
    /\ [][(UnknownTypeAttempt /\ pc = "returned") => pc' = "int18"]_vars
    /\ [][(UnknownTypeAttempt /\ pc = "int18") => Handle18Step]_vars

\* the empty entry (type 0) of the table halts the machine
C13_Witness ==
    /\ UnknownTypeAttempt /\ EntryType = 0 /\ pc = "halted"
    /\ LastOf(out) = << "PANIC", "Bad drive type" >>

-----------------------------------------------------------------------------
(* C14: CD-ROM entry with CONFIG_CDROM_BOOT off *)

\* the dispatch of a CD-ROM entry has run in a build without CD-ROM boot
CdromSkipped ==
    /\ ~CONFIG_CDROM_BOOT
    /\ type = IPL_TYPE_CDROM
    /\ pc # "dispatch"

\* C14: with CONFIG_CDROM_BOOT off, an attempt that resolves to a CD-ROM
\* entry never calls cdrom_boot (nor any other collaborator), prints only the
\* announcement, reports no boot failure, performs no far call and does not
\* halt; it returns, do_boot invokes INT 18h and handle_18 starts the next
\* attempt.
C14_CdromSkip ==
    /\ [](CdromSkipped =>
            /\ pc \in {"returned", "int18"}
            /\ io = << >>
            /\ out = << << "Booting from " >>, << "CD-Rom", "..." >> >>
            /\ ~BootFailedReported
            /\ bootseg = 0 /\ bootip = 0)
    /\ [][(~CONFIG_CDROM_BOOT /\ type = IPL_TYPE_CDROM /\ pc = "dispatch") =>
             (pc' = "returned" /\ io' = << >> /\ out' = out)]_vars
    /\ [][(CdromSkipped /\ pc = "returned") => pc' = "int18"]_vars
    /\ [][(CdromSkipped /\ pc = "int18") =>
             (Handle18Step /\ seq_nr' = NextSeq(seq_nr))]_vars

C14_Witness ==
    /\ CdromSkipped /\ pc = "int18" /\ io = << >>
    /\ seq_nr = 2 /\ bootdev = 2

-----------------------------------------------------------------------------
(* C15: bounded retry *)

\* since the last handle_19 no attempt has transferred control
NoTransferSoFar == since19 /\ ~declined /\ AttemptsInOrder

\* C15 as stated: after handle_19, while no attempt has transferred control,
\* the attempts run through the fields of the boot order at most once each:
\* an attempt past the eighth field decodes no device and halts with
\* "No bootable device", whatever the boot order.
C15_Original ==
    (NoTransferSoFar /\ Resolved /\ seq_nr >= 8) =>
        /\ NoBootableDevice
        /\ bootdev = 0

-----------------------------------------------------------------------------
(* C16: every returned cycle is followed by one INT 18h *)

\* a cycle that has returned to do_boot goes on with INT 18h only, and the
\* attempt it made stays the last one
ReturnedThenInt18 ==
    pc = "returned" =>
        /\ pc' = "int18"
        /\ attempts' = attempts
        /\ boot_sequence' = boot_sequence

\* C16: a returned cycle is followed by do_boot's INT 18h and nothing else,
\* the INT 18h is served by handle_18 and nothing else, and that raises the
\* counter by exactly one; no attempt index is skipped.
C16_Original ==
    /\ [][ReturnedThenInt18]_vars
    /\ [][pc = "int18" =>
            /\ Handle18Step
            /\ boot_sequence' = boot_sequence + 1
            /\ attempts' = Append(attempts, boot_sequence + 1)]_vars
    /\ [](since19 => AttemptsInOrder)


-----------------------------------------------------------------------------
(* C17: the attempt index of a cycle is the stored counter *)

\* C17: throughout every resolve-and-attempt cycle the attempt index passed
\* to try_boot equals the stored counter, in particular when control is
\* transferred at attempt k; and a recovery invocation made by the loaded
\* program then attempts index k + 1.
C17_Original ==
    /\ [](entry # "none" => seq_nr = boot_sequence)
    /\ [](Transferring => boot_sequence = seq_nr)
    /\ [][(pc = "booted" /\ Handle18Step) =>
            /\ seq_nr' = seq_nr + 1
            /\ boot_sequence' = seq_nr + 1]_vars


-----------------------------------------------------------------------------
(* C18: try_boot writes neither the IPL data nor the counter *)

InTryBoot == pc \in {"try_boot", "resolved", "dispatch", "transfer"}

\* C18: no step changes the boot order, the table entries, count or
\* checkfloppysig; a step of try_boot, whatever its outcome, leaves the
\* counter unchanged; the counter is written only by handle_19, which stores
\* 0, and by handle_18, which stores the value plus 1 (in 16 bits).
C18_Frame ==
    [][/\ IPL' = IPL
       /\ InTryBoot => boot_sequence' = boot_sequence
       /\ boot_sequence' # boot_sequence =>
             \/ Handle19Step /\ boot_sequence' = 0
             \/ Handle18Step /\ boot_sequence' = (boot_sequence + 1) % 65536]_vars

\* a third cycle has run to its end (a failed read) over an 8-field order
C18_Witness ==
    /\ pc = "returned" /\ seq_nr = 2 /\ boot_sequence = 2
    /\ io # << >> /\ io[1].op = "int13"
    /\ IPL.bootorder = U32(\h1111, \h1111)


-----------------------------------------------------------------------------
(* C19: at most one load operation per cycle *)

LoadOps == { k \in 1..Len(io) : io[k].op \in {"int13", "cdrom_boot"} }

\* INT 13h function 2, one sector, cylinder 0, sector 1, head 0, drive drv,
\* buffer segment 0x07C0, every other register 0
OneSectorRead(drv) ==
    [ZeroRegs EXCEPT !.ax = 513, !.cx = 1, !.dx = drv, !.es = 1984]

\* C19: the calls of a cycle contain at most one load operation, and only as
\* the first call; once the dispatch of a floppy or hard disk entry has run
\* there is exactly one INT 13h read, of one sector (function 2, count 1,
\* cylinder 0, sector 1, head 0) into segment 0x07C0 from drive 0x00 (floppy)
\* or 0x80 (hard disk); once the dispatch of a CD-ROM entry has run with
\* CONFIG_CDROM_BOOT on there is exactly one cdrom_boot call and no disk
\* read; BEV entries, entries of other types, out-of-range and zero-field
\* attempts and a skipped CD-ROM entry issue no load operation.
C19_OneLoad ==
    /\ Cardinality(LoadOps) <= 1
    /\ LoadOps \subseteq {1}
    /\ Len(io) <= 2
    /\ pc \in {"try_boot", "resolved", "dispatch"} => io = << >>
    /\ (type \in {IPL_TYPE_FLOPPY, IPL_TYPE_HARDDISK} /\ pc # "dispatch") =>
          /\ LoadOps = {1}
          /\ io[1].op = "int13"
          /\ io[1].regs =
                OneSectorRead(IF type = IPL_TYPE_HARDDISK THEN 128 ELSE 0)
    /\ (type = IPL_TYPE_CDROM /\ pc # "dispatch" /\ CONFIG_CDROM_BOOT) =>
          /\ LoadOps = {1}
          /\ io[1].op = "cdrom_boot"
    /\ (type = IPL_TYPE_CDROM /\ ~CONFIG_CDROM_BOOT) => io = << >>
    /\ type \notin {IPL_TYPE_FLOPPY, IPL_TYPE_HARDDISK, IPL_TYPE_CDROM} =>
          NoLoadIssued
    /\ (NoBootableDevice \/ IndexOutOfRange) => io = << >>

\* a hard disk was read once and its boot sector called
C19_Witness ==
    /\ pc = "booted" /\ type = IPL_TYPE_HARDDISK
    /\ Len(io) = 2 /\ io[1].op = "int13" /\ io[2].op = "call16"
    /\ io[1].regs.dx = 128 /\ io[1].regs.cx = 1

=============================================================================
